---- MODULE Spec2Model ----
(***************************************************************************)
(* Model of the haproxy-ingress control plane core:                        *)
(*   - the ACME signer (pkg/acme/signer.go): account binding and the       *)
(*     per-secret renewal decision;                                        *)
(*   - the endpoint resolver (pkg/converters/utils/services.go).           *)
(* Strings whose content matters (notification items, domain names, IP     *)
(* addresses, annotation values) are sequences of characters, so that      *)
(* splitting, joining, formatting, parsing and ordering are computed.      *)
(***************************************************************************)
EXTENDS Integers, Sequences, FiniteSets, TLC

VARIABLES
    \* the signer (signer.go:65-72), the certificates the cache stores, the
    \* clock and the record of the most recent call
    account, client, expiring, verifyCount, secrets, now, last,
    \* the nodes the cache knows, and the pending result of the resolver
    nodes, out,
    \* the tracker: the link graph, its mutex, the query in progress or last
    \* ended, the query that ended just before it, the links recorded and not
    \* yet returned by a pruning query, and whether a link was recorded or
    \* dropped since the last query ended
    links, trackerLock, query, before, fresh, touched,
    \* the hand-off of changes: the accumulator, its mutex, the hand-off in
    \* progress or last ended, whether the watcher updated the accumulator
    \* since, the number of changes recorded so far and how often each was
    \* handed off
    pending, cacheLock, swap, updated, recorded, deliveries,
    \* the two goroutines that share the signer when their calls are taken
    \* line by line: the notification worker's Notify in progress and the
    \* configuration path's AcmeAccount in progress
    worker, config

signerVars == <<account, client, expiring, verifyCount, secrets, now, last>>
resolverVars == <<nodes, out>>
trackerVars == <<links, trackerLock, query, before, fresh, touched>>
cacheVars == <<pending, cacheLock, swap, updated, recorded, deliveries>>
raceVars == <<worker, config>>
vars == <<account, client, expiring, verifyCount, secrets, now, last, nodes, out,
          links, trackerLock, query, before, fresh, touched,
          pending, cacheLock, swap, updated, recorded, deliveries,
          worker, config>>

Range(s) == {s[i] : i \in 1..Len(s)}

(***************************************************************************)
(* Bounds of the model.                                                    *)
(***************************************************************************)
\* the clock runs over 0..MaxNow
MaxNow == 1
\* AcmeConfig draws the renewal window from 0..MaxWindow
MaxWindow == 2
\* the signing capability issues certificates living 1..MaxLife ticks
MaxLife == 1
\* Notify is not entered once the verification counter reached MaxVerify
MaxVerify == 2

(***************************************************************************)
(* Account tuples.                                                         *)
(***************************************************************************)
ProdURL == "https://acme-v02.api.letsencrypt.org"
StagingURL == "https://acme-staging-v02.api.letsencrypt.org"

\* the (endpoint, emails, termsAgreed) arguments a caller may pass to
\* AcmeAccount: every alias and both full URLs, an unregistered and a
\* registered contact, and partly empty tuples
Endpoints == {"", "v2", "v02", "v2-staging", "v02-staging", ProdURL, StagingURL}
AccountInputs ==
    {<<ep, "", FALSE>> : ep \in Endpoints}
        \cup {<<ep, "ops@example.com", TRUE>> : ep \in Endpoints}
        \cup {<<"", "", TRUE>>, <<"", "ops@example.com", FALSE>>}

\* the two configurations the renewal specification switches between
RenewalAccountInputs == {<<"", "", FALSE>>, <<"v02", "ops@example.com", TRUE>>}

\* signer.go:75-80, the alias switch of AcmeAccount
NormalizeNoV02(endpoint) ==
    CASE endpoint = "v2" -> ProdURL
      [] endpoint \in {"v2-staging", "v02-staging"} -> StagingURL
      [] OTHER -> endpoint

NormalizeEndpoint(endpoint) ==
    CASE endpoint \in {"v2", "v02"} -> ProdURL
      [] endpoint \in {"v2-staging", "v02-staging"} -> StagingURL
      [] OTHER -> endpoint

\* signer.go:81-85
NewAccount(endpoint, emails, termsAgreed) ==
    [Endpoint |-> endpoint, Emails |-> emails, TermsAgreed |-> termsAgreed]

\* the zero value of Account: the field of a freshly built signer, and the
\* tuple tested at signer.go:90
DisabledAccount == NewAccount("", "", FALSE)

\* a nil Client (signer.go:89), and the Client NewClient builds for an account
\* (signer.go:94)
NilClient == [bound |-> FALSE, account |-> DisabledAccount]
NewClient(acct) == [bound |-> TRUE, account |-> acct]

\* the recorded account tested in place of the client
HasRecordedAccount == account # DisabledAccount

\* signer.go:107-109
HasAccount == client # NilClient

(***************************************************************************)
(* Notification items: "secretName,domain1,domain2,..." as characters.     *)
(***************************************************************************)
Comma == ","

Items ==
    { <<"s", ",", "a">>,
      <<"s", ",", "a", ",", "b">>,
      <<"s", ",", "b", ",", "a">>,
      <<"s", ",", "a", "b">>,
      <<"t", ",", "a">> }

\* strings.Split(s, ","), signer.go:115: fields between the separators, the
\* last field included even when empty
RECURSIVE SplitFrom(_, _, _)
SplitFrom(s, i, cur) ==
    IF i > Len(s) THEN <<cur>>
    ELSE IF s[i] = Comma THEN <<cur>> \o SplitFrom(s, i + 1, <<>>)
    ELSE SplitFrom(s, i + 1, Append(cur, s[i]))

Split(s) == SplitFrom(s, 1, <<>>)

\* signer.go:116
SecretNameOf(item) == Split(item)[1]
\* signer.go:117
DomainsOf(item) == Tail(Split(item))

SecretNames == {SecretNameOf(it) : it \in Items}

(***************************************************************************)
(* The renewal decision.                                                   *)
(***************************************************************************)
\* a parsed certificate: the two fields verify reads (tls.Crt.DNSNames,
\* tls.Crt.NotAfter)
Certificate(dnsNames, notAfter) ==
    [present |-> TRUE, DNSNames |-> dnsNames, NotAfter |-> notAfter]

\* no certificate stored: GetTLSSecretContent returns nil
NilTLS == [present |-> FALSE, DNSNames |-> <<>>, NotAfter |-> 0]

\* not later, instead of strictly earlier
NotAfterInstant(t, u) == t <= u

\* time.Time.Before (signer.go:126): strictly earlier
Before(t, u) == t < u

\* signer.go:163-168, the inner loop: found is set when some dns equals domain
Found(domain, dnsnames) == \E j \in 1..Len(dnsnames) : domain = dnsnames[j]

RECURSIVE MatchFrom(_, _, _)
MatchFrom(domains, dnsnames, i) ==
    IF i > Len(domains) THEN TRUE
    ELSE IF ~Found(domains[i], dnsnames) THEN FALSE
    ELSE MatchFrom(domains, dnsnames, i + 1)

\* a comparison position by position, as a slice equality would do
MatchPositional(domains, dnsnames) ==
    /\ Len(domains) <= Len(dnsnames)
    /\ \A i \in 1..Len(domains) : domains[i] = dnsnames[i]

\* signer.go:161-174
match(domains, dnsnames) == MatchFrom(domains, dnsnames, 1)

\* the condition without its expiry clause
NeedsIssueNoExpiry(tls, duedate, domains) ==
    \/ tls = NilTLS
    \/ ~match(domains, tls.DNSNames)

\* signer.go:126, the condition of the if
NeedsIssue(tls, duedate, domains) ==
    \/ tls = NilTLS
    \/ Before(tls.NotAfter, duedate)
    \/ ~match(domains, tls.DNSNames)

\* Cache.GetTLSSecretContent (signer.go:55): the stored certificate or nil
GetTLSSecretContent(secretName) == secrets[secretName]

\* Cache.SetTLSSecretContent (signer.go:56): on success the secret holds the
\* new certificate, on failure it is left alone
SetTLSSecretContent(secretName, crt, setOK) ==
    IF setOK THEN [secrets EXCEPT ![secretName] = crt] ELSE secrets

\* Client.Sign (signer.go:138): a certificate for the requested domains, whose
\* lifetime the authority chooses
Sign(domains, life) == Certificate(domains, now + life)

ErrUninitialized == "acme: account was not properly initialized"
ErrSign == "sign error"
ErrStore == "store error"

\* a storage error taken for a success
IssueResultSwallow(signOK, setOK) ==
    IF signOK THEN "nil" ELSE ErrSign

\* signer.go:139-152, what the trigger path returns
IssueResult(signOK, setOK) ==
    IF signOK
    THEN IF setOK THEN "nil" ELSE ErrStore
    ELSE ErrSign

\* a verify that counts only the issues that succeed
verifyCountsIssued(secretName, domains, signOK, setOK, life) ==
    LET duedate == now + expiring
        tls == GetTLSSecretContent(secretName)
    IN  IF NeedsIssue(tls, duedate, domains)
        THEN [ret |-> IssueResult(signOK, setOK),
              gets |-> 1,
              signs |-> 1,
              sets |-> IF signOK THEN 1 ELSE 0,
              secrets |-> IF signOK
                          THEN SetTLSSecretContent(secretName, Sign(domains, life), setOK)
                          ELSE secrets,
              verifyCount |-> IF signOK /\ setOK THEN verifyCount + 1 ELSE verifyCount]
        ELSE [ret |-> "nil",
              gets |-> 1,
              signs |-> 0,
              sets |-> 0,
              secrets |-> secrets,
              verifyCount |-> verifyCount]

\* signer.go:122-157.  The outcome of one verify call: what it returns, how
\* often it called each capability, and the state it leaves.
verify(secretName, domains, signOK, setOK, life) ==
    LET duedate == now + expiring
        tls == GetTLSSecretContent(secretName)
    IN  IF NeedsIssue(tls, duedate, domains)
        THEN [ret |-> IssueResult(signOK, setOK),
              gets |-> 1,
              signs |-> 1,
              sets |-> IF signOK THEN 1 ELSE 0,
              secrets |-> IF signOK
                          THEN SetTLSSecretContent(secretName, Sign(domains, life), setOK)
                          ELSE secrets,
              verifyCount |-> verifyCount + 1]
        ELSE [ret |-> "nil",
              gets |-> 1,
              signs |-> 0,
              sets |-> 0,
              secrets |-> secrets,
              verifyCount |-> verifyCount]

(***************************************************************************)
(* The endpoint resolver (services.go).  Strings that are ordered or       *)
(* parsed are sequences of byte values.                                    *)
(***************************************************************************)
\* at most MaxAddrs addresses in one address list, endpoint list or DNS answer
MaxAddrs == 2

Dot == 46
Colon == 58
Minus == 45
Plus == 43
Zero == 48

\* services.go:33
defaultServerWeight == 50
\* services.go:261, the accepted range of a node weight
minWeight == 1
maxWeight == 127

\* all sequences over S of length at most n
RECURSIVE SeqsUpTo(_, _)
SeqsUpTo(S, n) ==
    IF n = 0 THEN {<<>>}
    ELSE LET shorter == SeqsUpTo(S, n - 1)
         IN  shorter \cup {Append(q, x) : q \in {r \in shorter : Len(r) = n - 1}, x \in S}

RECURSIVE Flatten(_)
Flatten(ss) == IF ss = <<>> THEN <<>> ELSE Head(ss) \o Flatten(Tail(ss))

\* strconv.Itoa (services.go:230): the decimal digits, most significant first
RECURSIVE Digits(_)
Digits(n) == IF n < 10 THEN <<Zero + n>> ELSE Append(Digits(n \div 10), Zero + (n % 10))

Itoa(n) == IF n < 0 THEN <<Minus>> \o Digits(0 - n) ELSE Digits(n)

\* strconv.Atoi (services.go:256): an optional sign, then one or more decimal
\* digits and nothing else
IsDigit(c) == c >= Zero /\ c <= Zero + 9

RECURSIVE DigitsValue(_, _)
DigitsValue(s, acc) ==
    IF s = <<>> THEN acc ELSE DigitsValue(Tail(s), 10 * acc + (Head(s) - Zero))

Atoi(s) ==
    LET signed == s # <<>> /\ s[1] \in {Plus, Minus}
        body == IF signed THEN Tail(s) ELSE s
        ok == body # <<>> /\ \A i \in 1..Len(body) : IsDigit(body[i])
        magnitude == IF ok THEN DigitsValue(body, 0) ELSE 0
    IN  [ok |-> ok,
         val |-> IF signed /\ s[1] = Minus THEN 0 - magnitude ELSE magnitude]

\* the order of Go strings (services.go:181): byte by byte, a proper prefix
\* first
RECURSIVE StrLess(_, _)
StrLess(a, b) ==
    IF b = <<>> THEN FALSE
    ELSE IF a = <<>> THEN TRUE
    ELSE IF a[1] # b[1] THEN a[1] < b[1]
    ELSE StrLess(Tail(a), Tail(b))

\* net.IP.String (services.go:216) of a four-byte address: dotted decimal
IPString(ip) ==
    Itoa(ip[1]) \o <<Dot>> \o Itoa(ip[2]) \o <<Dot>> \o Itoa(ip[3]) \o <<Dot>> \o Itoa(ip[4])

\* a nil *string node name, a nil *ObjectReference
NilName == "<nil>"
NoRef == [Namespace |-> "", Name |-> ""]

\* services.go:221-233.  NodeName and Weight keep their zero values.
newEndpoint(ip, port, targetRef) ==
    [IP |-> ip,
     Port |-> port,
     Target |-> ip \o <<Colon>> \o Itoa(port),
     TargetRef |-> IF targetRef # NoRef
                   THEN <<targetRef.Namespace, "/", targetRef.Name>>
                   ELSE <<>>,
     NodeName |-> NilName,
     Weight |-> 0]

(***************************************************************************)
(* What the cache answers.                                                 *)
(***************************************************************************)
NodeNames == {"n1", "n2"}

\* a node as GetNodeByName answers: found or a lookup error, with or without
\* the node-weight annotation
Node(found, annotated, weight) ==
    [found |-> found, annotated |-> annotated, weight |-> weight]

PlainNode == Node(TRUE, FALSE, <<>>)

\* annotation values: "1", "127", "64", "0", "128", "-5", "abc", "", "+7", "007",
\* "1 "
WeightStrings ==
    { <<49>>, <<49, 50, 55>>, <<54, 52>>, <<48>>, <<49, 50, 56>>, <<45, 53>>,
      <<97, 98, 99>>, <<>>, <<43, 55>>, <<48, 48, 55>>, <<49, 32>> }

NodeChoices ==
    {Node(FALSE, FALSE, <<>>), PlainNode} \cup {Node(TRUE, TRUE, w) : w \in WeightStrings}

\* the range check without its upper limit
getNodeWeightNoUpper(nodeName) ==
    IF nodeName = NilName THEN defaultServerWeight
    ELSE IF nodeName \notin NodeNames \/ ~nodes[nodeName].found THEN defaultServerWeight
    ELSE IF ~nodes[nodeName].annotated THEN defaultServerWeight
    ELSE LET weight == Atoi(nodes[nodeName].weight)
         IN  IF ~weight.ok THEN defaultServerWeight
             ELSE IF weight.val < minWeight THEN defaultServerWeight
             ELSE weight.val

\* services.go:239-268
getNodeWeight(nodeName) ==
    IF nodeName = NilName THEN defaultServerWeight
    ELSE IF nodeName \notin NodeNames \/ ~nodes[nodeName].found THEN defaultServerWeight
    ELSE IF ~nodes[nodeName].annotated THEN defaultServerWeight
    ELSE LET weight == Atoi(nodes[nodeName].weight)
         IN  IF ~weight.ok THEN defaultServerWeight
             ELSE IF weight.val < minWeight \/ weight.val > maxWeight
             THEN defaultServerWeight
             ELSE weight.val

\* "10.0.0.1", "10.0.0.2", "10.0.0.10"
IP1 == IPString(<<10, 0, 0, 1>>)
IP2 == IPString(<<10, 0, 0, 2>>)
IP10 == IPString(<<10, 0, 0, 10>>)

PodRef == [Namespace |-> "default", Name |-> "web-1"]

\* api.EndpointAddress: IP, NodeName, TargetRef.  Two of them share an IP.
EndpointAddress(ip, nodeName, targetRef) ==
    [IP |-> ip, NodeName |-> nodeName, TargetRef |-> targetRef]

Addresses ==
    { EndpointAddress(IP1, "n1", PodRef),
      EndpointAddress(IP2, "n2", NoRef),
      EndpointAddress(IP10, NilName, NoRef),
      EndpointAddress(IP1, "n2", NoRef) }

\* api.EndpointPort and discoveryv1.EndpointPort: Name, Port, Protocol
EndpointPort(name, port, protocol) == [Name |-> name, Port |-> port, Protocol |-> protocol]

PortHTTP == EndpointPort("http", 80, "TCP")
PortMetrics == EndpointPort("metrics", 9, "TCP")
PortUDP == EndpointPort("http", 8080, "UDP")

PortLists == { <<PortHTTP>>, <<PortMetrics, PortUDP, PortHTTP>> }

\* api.EndpointSubset
Subsets ==
    { [Ports |-> ps, Addresses |-> as, NotReadyAddresses |-> ns] :
          ps \in PortLists,
          as \in SeqsUpTo(Addresses, MaxAddrs),
          ns \in {<<>>, <<EndpointAddress(IP2, "n2", NoRef)>>} }

\* the subsets that follow another one in the lists of two subsets
SecondSubsets ==
    { [Ports |-> <<PortHTTP>>,
       Addresses |-> <<EndpointAddress(IP2, "n2", NoRef)>>,
       NotReadyAddresses |-> <<EndpointAddress(IP10, NilName, NoRef)>>],
      [Ports |-> <<PortMetrics, PortHTTP>>,
       Addresses |-> <<EndpointAddress(IP10, "n1", NoRef), EndpointAddress(IP1, "n1", PodRef)>>,
       NotReadyAddresses |-> <<>>] }

\* api.Endpoints.Subsets
SubsetLists ==
    {<<>>} \cup {<<s>> : s \in Subsets} \cup {<<s, t>> : s \in Subsets, t \in SecondSubsets}

\* discoveryv1.Endpoint: Addresses (at least one), Conditions.Ready (nil, true
\* or false), NodeName, TargetRef
SliceEndpoint(addresses, ready, nodeName, targetRef) ==
    [Addresses |-> addresses, Ready |-> ready, NodeName |-> nodeName,
     TargetRef |-> targetRef]

SliceEndpoints ==
    { SliceEndpoint(<<IP1, IP2>>, "nil", "n1", PodRef),
      SliceEndpoint(<<IP2>>, "false", "n2", NoRef),
      SliceEndpoint(<<IP10>>, "true", NilName, NoRef),
      SliceEndpoint(<<IP1>>, "false", "n2", NoRef) }

\* discoveryv1.EndpointSlice
Slices ==
    { [Ports |-> ps, Endpoints |-> es] :
          ps \in PortLists, es \in SeqsUpTo(SliceEndpoints, MaxAddrs) }

SecondSlices ==
    { [Ports |-> <<PortHTTP>>,
       Endpoints |-> <<SliceEndpoint(<<IP2>>, "nil", "n2", NoRef)>>],
      [Ports |-> <<PortUDP, PortHTTP>>,
       Endpoints |-> <<SliceEndpoint(<<IP10>>, "false", "n1", NoRef),
                       SliceEndpoint(<<IP1>>, "true", "n1", PodRef)>>] }

SliceLists ==
    {<<>>} \cup {<<s>> : s \in Slices} \cup {<<s, t>> : s \in Slices, t \in SecondSlices}

\* the answer of a cache lookup: an error or a value
Answer(err, val) == [err |-> err, val |-> val]
NoAnswer == Answer("nil", <<>>)

ErrEndpoints == "endpoints lookup failed"
ErrSlices == "endpoint slices lookup failed"
ErrDNS == "external name lookup failed"
ErrInvalidPort == "invalid port number"

\* what GetEndpoints, GetEndpointSlices and ExternalNameLookup may answer
EndpointsAnswers == {Answer(ErrEndpoints, <<>>)} \cup {Answer("nil", l) : l \in SubsetLists}
SlicesAnswers == {Answer(ErrSlices, <<>>)} \cup {Answer("nil", l) : l \in SliceLists}
DNSAnswers ==
    {Answer(ErrDNS, <<>>)}
        \cup {Answer("nil", l) :
                 l \in SeqsUpTo({<<10, 0, 0, 1>>, <<10, 0, 0, 2>>, <<10, 0, 0, 10>>}, MaxAddrs)}

\* api.ServicePort: Name, Protocol, Port
ServicePort(name, protocol, port) == [Name |-> name, Protocol |-> protocol, Port |-> port]

ServicePorts ==
    { ServicePort("http", "TCP", 80),
      ServicePort("", "", 8080),
      ServicePort("http", "UDP", 0) }

(***************************************************************************)
(* The resolver.                                                           *)
(***************************************************************************)
\* services.go:189-194
matchPort(svcPort, epPort) ==
    IF epPort.Protocol # "TCP" THEN FALSE
    ELSE svcPort.Name = "" \/ svcPort.Name = epPort.Name

\* services.go:93-96, a ready address of the list-based representation
ReadyEndpoint(addr, port) ==
    [newEndpoint(addr.IP, port, addr.TargetRef) EXCEPT
        !.NodeName = addr.NodeName,
        !.Weight = getNodeWeight(addr.NodeName)]

\* services.go:99
NotReadyEndpoint(addr, port) == newEndpoint(addr.IP, port, addr.TargetRef)

\* services.go:87-105
createEndpoints(endpoints, svcPort) ==
    LET perPort(subset, epPort, addrs, make(_, _)) ==
            IF matchPort(svcPort, epPort)
            THEN [k \in 1..Len(addrs) |-> make(addrs[k], epPort.Port)]
            ELSE <<>>
        perSubset(subset, addrs, make(_, _)) ==
            Flatten([j \in 1..Len(subset.Ports) |->
                        perPort(subset, subset.Ports[j], addrs, make)])
    IN  [ready |-> Flatten([i \in 1..Len(endpoints) |->
                      perSubset(endpoints[i], endpoints[i].Addresses, ReadyEndpoint)]),
         notReady |-> Flatten([i \in 1..Len(endpoints) |->
                      perSubset(endpoints[i], endpoints[i].NotReadyAddresses,
                                NotReadyEndpoint)]),
         err |-> "nil"]

\* services.go:115-129: the protocol and the name a slice port must have
SlicePortMatches(svcPort, epPort) ==
    LET svcPortProtocol == IF svcPort.Protocol # "" THEN svcPort.Protocol ELSE "TCP"
    IN  /\ svcPortProtocol = epPort.Protocol
        /\ ~(svcPort.Name # "" /\ svcPort.Name # epPort.Name)

\* services.go:136-138
SliceDomainEndpoint(endpoint, epPort) ==
    [newEndpoint(endpoint.Addresses[1], epPort.Port, endpoint.TargetRef) EXCEPT
        !.NodeName = endpoint.NodeName,
        !.Weight = getNodeWeight(endpoint.NodeName)]

\* an absent flag taken for not ready
IsReadyOnlyIfTrue(endpoint) == endpoint.Ready = "true"

\* services.go:147
IsReady(endpoint) == endpoint.Ready = "nil" \/ endpoint.Ready = "true"

\* services.go:107-159
createEndpointSlices(endpointSlices, svcPort) ==
    LET perPort(slice, epPort, wantReady) ==
            IF SlicePortMatches(svcPort, epPort)
            THEN LET kept == SelectSeq(slice.Endpoints,
                                       LAMBDA e : IsReady(e) = wantReady)
                 IN  [k \in 1..Len(kept) |-> SliceDomainEndpoint(kept[k], epPort)]
            ELSE <<>>
        perSlice(slice, wantReady) ==
            Flatten([j \in 1..Len(slice.Ports) |->
                        perPort(slice, slice.Ports[j], wantReady)])
    IN  [ready |-> Flatten([i \in 1..Len(endpointSlices) |->
                      perSlice(endpointSlices[i], TRUE)]),
         notReady |-> Flatten([i \in 1..Len(endpointSlices) |->
                      perSlice(endpointSlices[i], FALSE)]),
         err |-> "nil"]

\* the lookup and the endpoints without the check of the port
createEndpointsExternalNameAnyPort(dns, svcPort) ==
    IF dns.err # "nil" THEN [endpoints |-> <<>>, err |-> dns.err]
    ELSE [endpoints |-> [i \in 1..Len(dns.val) |->
                            newEndpoint(IPString(dns.val[i]), svcPort.Port, NoRef)],
          err |-> "nil"]

\* the lookup's error dropped
createEndpointsExternalNameSwallow(dns, svcPort) ==
    IF svcPort.Port <= 0 THEN [endpoints |-> <<>>, err |-> ErrInvalidPort]
    ELSE IF dns.err # "nil" THEN [endpoints |-> <<>>, err |-> "nil"]
    ELSE [endpoints |-> [i \in 1..Len(dns.val) |->
                            newEndpoint(IPString(dns.val[i]), svcPort.Port, NoRef)],
          err |-> "nil"]

\* services.go:205-219
createEndpointsExternalName(dns, svcPort) ==
    LET port == svcPort.Port
    IN  IF port <= 0 THEN [endpoints |-> <<>>, err |-> ErrInvalidPort]
        ELSE IF dns.err # "nil" THEN [endpoints |-> <<>>, err |-> dns.err]
        ELSE [endpoints |-> [i \in 1..Len(dns.val) |->
                                newEndpoint(IPString(dns.val[i]), port, NoRef)],
              err |-> "nil"]

\* the comparison by IP alone
LessByIP(a, b) == StrLess(a.IP, b.IP)

\* services.go:181 and 184, the less function
TargetLess(a, b) == StrLess(a.Target, b.Target)

\* sort.Slice (services.go:180-185) on a slice of at most twelve entries is an
\* insertion sort: each entry moves left past the entries it is less than
RECURSIVE InsertSorted(_, _)
InsertSorted(sorted, e) ==
    IF sorted # <<>> /\ TargetLess(e, sorted[Len(sorted)])
    THEN Append(InsertSorted(SubSeq(sorted, 1, Len(sorted) - 1), e), sorted[Len(sorted)])
    ELSE Append(sorted, e)

RECURSIVE SortFrom(_, _, _)
SortFrom(s, i, sorted) ==
    IF i > Len(s) THEN sorted ELSE SortFrom(s, i + 1, InsertSorted(sorted, s[i]))

SortSlice(s) == SortFrom(s, 1, <<>>)

\* services.go:161-187.  cache: the answers of GetEndpoints, GetEndpointSlices
\* and ExternalNameLookup.
CreateEndpointsResult(svc, svcPort, useEndpointSlices, cache) ==
    IF svc.Type = "ExternalName"
    THEN LET r == createEndpointsExternalName(cache.dns, svcPort)
         IN  [ready |-> SortSlice(r.endpoints), notReady |-> <<>>, err |-> r.err]
    ELSE IF useEndpointSlices
    THEN IF cache.slices.err # "nil"
         THEN [ready |-> <<>>, notReady |-> <<>>, err |-> cache.slices.err]
         ELSE LET r == createEndpointSlices(cache.slices.val, svcPort)
              IN  [ready |-> SortSlice(r.ready), notReady |-> SortSlice(r.notReady),
                   err |-> r.err]
    ELSE IF cache.endpoints.err # "nil"
         THEN [ready |-> <<>>, notReady |-> <<>>, err |-> cache.endpoints.err]
         ELSE LET r == createEndpoints(cache.endpoints.val, svcPort)
              IN  [ready |-> SortSlice(r.ready), notReady |-> SortSlice(r.notReady),
                   err |-> r.err]

\* api.Service: Spec.Type and Spec.ExternalName
ClusterService == [Type |-> "ClusterIP", ExternalName |-> ""]
ExternalService == [Type |-> "ExternalName", ExternalName |-> "db.example.com"]

CacheAnswers(endpoints, slices, dns) ==
    [endpoints |-> endpoints, dns |-> dns, slices |-> slices]

\* no call of the resolver is pending
NoResult ==
    [called |-> FALSE, svc |-> ClusterService, svcPort |-> ServicePort("", "", 0),
     useEndpointSlices |-> FALSE, cache |-> CacheAnswers(NoAnswer, NoAnswer, NoAnswer),
     ready |-> <<>>, notReady |-> <<>>, err |-> "nil"]

\* one call of CreateEndpoints, its arguments and its results kept in out
CreateEndpoints(svc, svcPort, useEndpointSlices, cache) ==
    /\ ~out.called
    /\ LET r == CreateEndpointsResult(svc, svcPort, useEndpointSlices, cache)
       IN  out' = [called |-> TRUE, svc |-> svc, svcPort |-> svcPort,
                   useEndpointSlices |-> useEndpointSlices, cache |-> cache,
                   ready |-> r.ready, notReady |-> r.notReady, err |-> r.err]
    /\ UNCHANGED nodes
    /\ UNCHANGED <<signerVars, trackerVars, cacheVars, raceVars>>

\* the caller has taken the result
TakeResult ==
    /\ out.called
    /\ out' = NoResult
    /\ UNCHANGED nodes
    /\ UNCHANGED <<signerVars, trackerVars, cacheVars, raceVars>>

(***************************************************************************)
(* The record of the most recent call on the signer.                       *)
(***************************************************************************)
NoCall ==
    [op |-> "none", item |-> <<>>, acct |-> DisabledAccount, attempted |-> FALSE,
     built |-> FALSE, gets |-> 0, signs |-> 0, sets |-> 0, ret |-> "nil",
     at |-> 0, again |-> FALSE, prevSigns |-> 0]

\* the call before this one was a verify of the same item at the same instant
\* (so nothing but that call itself can have changed what verify reads)
Again(item) ==
    last.op = "Notify" /\ last.gets = 1 /\ last.item = item /\ last.at = now

(***************************************************************************)
(* Operations.                                                             *)
(***************************************************************************)
\* an AcmeAccount that clears the client only by replacing it
AcmeAccountKeepsClient(endpoint, emails, termsAgreed, newClientOK) ==
    LET ep == NormalizeEndpoint(endpoint)
        acct == NewAccount(ep, emails, termsAgreed)
        call == [NoCall EXCEPT !.op = "AcmeAccount", !.acct = acct]
    IN  /\ UNCHANGED <<expiring, verifyCount, secrets, now>>
        /\ UNCHANGED <<resolverVars, trackerVars, cacheVars, raceVars>>
        /\ IF account = acct
           THEN /\ UNCHANGED <<account, client>>
                /\ last' = call
           ELSE IF ep = "" /\ emails = "" /\ ~termsAgreed
           THEN /\ UNCHANGED <<account, client>>
                /\ last' = call
           ELSE IF ~newClientOK
           THEN /\ UNCHANGED <<account, client>>
                /\ last' = [call EXCEPT !.attempted = TRUE]
           ELSE /\ account' = acct
                /\ client' = NewClient(acct)
                /\ last' = [call EXCEPT !.attempted = TRUE, !.built = TRUE]

\* signer.go:74-101.  newClientOK: whether NewClient (line 94) succeeds.
AcmeAccount(endpoint, emails, termsAgreed, newClientOK) ==
    LET ep == NormalizeEndpoint(endpoint)
        acct == NewAccount(ep, emails, termsAgreed)
        call == [NoCall EXCEPT !.op = "AcmeAccount", !.acct = acct]
    IN  /\ UNCHANGED <<expiring, verifyCount, secrets, now>>
        /\ UNCHANGED <<resolverVars, trackerVars, cacheVars, raceVars>>
        /\ IF account = acct
           THEN /\ UNCHANGED <<account, client>>
                /\ last' = call
           ELSE IF ep = "" /\ emails = "" /\ ~termsAgreed
           THEN /\ client' = NilClient
                /\ UNCHANGED account
                /\ last' = call
           ELSE IF ~newClientOK
           THEN /\ client' = NilClient
                /\ UNCHANGED account
                /\ last' = [call EXCEPT !.attempted = TRUE]
           ELSE /\ account' = acct
                /\ client' = NewClient(acct)
                /\ last' = [call EXCEPT !.attempted = TRUE, !.built = TRUE]

\* signer.go:103-105
AcmeConfig(e) ==
    /\ expiring' = e
    /\ last' = [NoCall EXCEPT !.op = "AcmeConfig"]
    /\ UNCHANGED <<account, client, verifyCount, secrets, now>>
    /\ UNCHANGED <<resolverVars, trackerVars, cacheVars, raceVars>>

\* a Notify that drops the client when the verify returns an error
NotifyUnbindsOnError(item, signOK, setOK, life) ==
    /\ verifyCount < MaxVerify
    /\ UNCHANGED <<account, expiring, now>>
    /\ UNCHANGED <<resolverVars, trackerVars, cacheVars, raceVars>>
    /\ IF ~HasAccount
       THEN /\ last' = [NoCall EXCEPT !.op = "Notify", !.item = item,
                                      !.ret = ErrUninitialized]
            /\ UNCHANGED <<verifyCount, secrets, client>>
       ELSE LET r == verify(SecretNameOf(item), DomainsOf(item), signOK, setOK, life)
            IN  /\ last' = [NoCall EXCEPT !.op = "Notify", !.item = item,
                                          !.gets = r.gets, !.signs = r.signs,
                                          !.sets = r.sets, !.ret = r.ret,
                                          !.at = now, !.again = Again(item),
                                          !.prevSigns = last.signs]
                /\ secrets' = r.secrets
                /\ verifyCount' = r.verifyCount
                /\ client' = IF r.ret = "nil" THEN client ELSE NilClient

\* signer.go:111-120
Notify(item, signOK, setOK, life) ==
    /\ verifyCount < MaxVerify
    /\ UNCHANGED <<account, client, expiring, now>>
    /\ UNCHANGED <<resolverVars, trackerVars, cacheVars, raceVars>>
    /\ IF ~HasAccount
       THEN /\ last' = [NoCall EXCEPT !.op = "Notify", !.item = item,
                                      !.ret = ErrUninitialized]
            /\ UNCHANGED <<verifyCount, secrets>>
       ELSE LET r == verify(SecretNameOf(item), DomainsOf(item), signOK, setOK, life)
            IN  /\ last' = [NoCall EXCEPT !.op = "Notify", !.item = item,
                                          !.gets = r.gets, !.signs = r.signs,
                                          !.sets = r.sets, !.ret = r.ret,
                                          !.at = now, !.again = Again(item),
                                          !.prevSigns = last.signs]
                /\ secrets' = r.secrets
                /\ verifyCount' = r.verifyCount

\* time passes between calls (time.Now, signer.go:123)
Tick ==
    /\ now < MaxNow
    /\ now' = now + 1
    /\ UNCHANGED <<account, client, expiring, verifyCount, secrets, last>>
    /\ UNCHANGED <<resolverVars, trackerVars, cacheVars, raceVars>>

\* NewSigner, signer.go:31-36: every field of the signer has its zero value;
\* the cache holds no certificate yet
InitSigner ==
    /\ account = DisabledAccount
    /\ client = NilClient
    /\ expiring = 0
    /\ verifyCount = 0
    /\ secrets = [n \in SecretNames |-> NilTLS]
    /\ now = 0
    /\ last = NoCall

(***************************************************************************)
(* The dependency tracker (Tracker, main.go:256-263): a link graph from a   *)
(* left resource to the resources that depend on it, guarded by a mutex.    *)
(***************************************************************************)
\* main.go:216-245, the kinds the model links
ResourceSecret == "Secret"
ResourceService == "Service"
ResourceHABackend == "HABackend"
ResourceHAHostname == "HAHostname"

\* main.go:247-251
TrackingRef(context, uniqueName) == [Context |-> context, UniqueName |-> uniqueName]

LeftRefs == {TrackingRef(ResourceSecret, "tls"), TrackingRef(ResourceService, "web")}
RightRefs == {TrackingRef(ResourceHABackend, "app"), TrackingRef(ResourceHAHostname, "host")}
LeftBatches == {LeftRefs, {TrackingRef(ResourceSecret, "tls")}}

\* main.go:253-254, a mapping from a kind to the names of that kind
TrackingLinks(refs) ==
    [t \in {r.Context : r \in refs} |-> {r.UniqueName : r \in {q \in refs : q.Context = t}}]

\* the refs a TrackingLinks value names
RefsOf(trackingLinks) ==
    UNION {{TrackingRef(t, n) : n \in trackingLinks[t]} : t \in DOMAIN trackingLinks}

\* the inputs of the queries: each left ref alone and both
QueryInputs == {TrackingLinks({l}) : l \in LeftRefs} \cup {TrackingLinks(LeftRefs)}

\* the graph holds no link
NoLinks == [l \in LeftRefs |-> {}]

\* the links of the graph as (left, right) pairs
Edges(graph) == UNION {{<<l, r>> : r \in graph[l]} : l \in LeftRefs}

\* no query is recorded
NoQuery ==
    [input |-> <<>>, removeMatches |-> FALSE, result |-> <<>>, done |-> TRUE,
     asked |-> FALSE]

\* the mutex that is taken regardless of its holder
LockIgnored(lock) == TRUE

\* the mutex of the tracker can be taken
LockFree(lock) == lock = "free"

\* TrackNames: records the edge, a second recording changes nothing
TrackNames(leftContext, leftName, rightContext, rightName) ==
    LET left == TrackingRef(leftContext, leftName)
        right == TrackingRef(rightContext, rightName)
    IN  /\ LockFree(trackerLock)
        /\ links' = [links EXCEPT ![left] = @ \cup {right}]
        /\ fresh' = fresh \cup {<<left, right>>}
        /\ touched' = TRUE
        /\ UNCHANGED <<trackerLock, query, before>>
        /\ UNCHANGED <<signerVars, resolverVars, cacheVars, raceVars>>

\* TrackRefs: one edge between two refs
TrackRefs(left, right) ==
    TrackNames(left.Context, left.UniqueName, right.Context, right.UniqueName)

\* TrackRefName: one edge from each left ref to the one right target
TrackRefName(left, rightContext, rightName) ==
    LET right == TrackingRef(rightContext, rightName)
    IN  /\ LockFree(trackerLock)
        /\ links' = [l \in LeftRefs |-> IF l \in left THEN links[l] \cup {right} ELSE links[l]]
        /\ fresh' = fresh \cup {<<l, right>> : l \in left}
        /\ touched' = TRUE
        /\ UNCHANGED <<trackerLock, query, before>>
        /\ UNCHANGED <<signerVars, resolverVars, cacheVars, raceVars>>

\* ClearLinks: drops the whole graph
ClearLinks ==
    /\ LockFree(trackerLock)
    /\ links' = NoLinks
    /\ fresh' = {}
    /\ touched' = TRUE
    /\ UNCHANGED <<trackerLock, query, before>>
    /\ UNCHANGED <<signerVars, resolverVars, cacheVars, raceVars>>

\* the names linked from every pair of input, merged and grouped by kind
LinkedFrom(graph, input) ==
    TrackingLinks(UNION {graph[l] : l \in RefsOf(input) \cap LeftRefs})

\* the graph with every link kept
PrunedNothing(graph, input) == graph

\* the graph without the links of the pairs of input
Pruned(graph, input) ==
    [l \in LeftRefs |-> IF l \in RefsOf(input) THEN {} ELSE graph[l]]

\* QueryLinks, the read: takes the mutex and collects the result.  before
\* keeps the query that ended just before this one, if no link was recorded
\* or dropped in between
QueryLinksRead(input, removeMatches) ==
    /\ LockFree(trackerLock)
    /\ trackerLock' = "query"
    /\ query' = [input |-> input, removeMatches |-> removeMatches,
                 result |-> LinkedFrom(links, input), done |-> FALSE, asked |-> TRUE]
    /\ before' = IF touched THEN NoQuery ELSE query
    /\ UNCHANGED <<links, fresh, touched>>
    /\ UNCHANGED <<signerVars, resolverVars, cacheVars, raceVars>>

\* QueryLinks, the end: removes the matched links if asked to, releases the
\* mutex and returns
QueryLinksReturn ==
    /\ ~query.done
    /\ links' = IF query.removeMatches THEN Pruned(links, query.input) ELSE links
    /\ fresh' = IF query.removeMatches
                THEN fresh \ {e \in fresh : /\ e[1] \in RefsOf(query.input)
                                            /\ e[2] \in RefsOf(query.result)}
                ELSE fresh
    /\ query' = [query EXCEPT !.done = TRUE]
    /\ trackerLock' = "free"
    /\ touched' = FALSE
    /\ UNCHANGED before
    /\ UNCHANGED <<signerVars, resolverVars, cacheVars, raceVars>>

InitTracker ==
    /\ links = NoLinks
    /\ trackerLock = "free"
    /\ query = NoQuery
    /\ before = NoQuery
    /\ fresh = {}
    /\ touched = FALSE

(***************************************************************************)
(* The hand-off of the changed objects (Cache.SwapChangedObjects,           *)
(* main.go:169; ChangedObjects, main.go:173-214): the watcher appends to    *)
(* the accumulator, the cycle takes it and leaves an empty one.  A change   *)
(* is the number the watcher gave it.                                       *)
(***************************************************************************)
\* the watcher records at most MaxChanges changes
MaxChanges == 3

\* the members of ChangedObjects the model keeps: added ingresses, updated
\* secrets, new endpoint sets, the full-sync flag and the descriptions
ChangedObjects(ingressesAdd, secretsUpd, endpointsNew, needFullSync, objects) ==
    [IngressesAdd |-> ingressesAdd, SecretsUpd |-> secretsUpd,
     EndpointsNew |-> endpointsNew, NeedFullSync |-> needFullSync,
     Objects |-> objects]

\* the fully empty ChangeSet
NoChanges == ChangedObjects(<<>>, <<>>, <<>>, FALSE, <<>>)

ChangeKinds == {"IngressesAdd", "SecretsUpd", "EndpointsNew"}

\* the changes a ChangeSet contains
ChangesIn(changed) ==
    Range(changed.IngressesAdd) \cup Range(changed.SecretsUpd)
        \cup Range(changed.EndpointsNew)

\* nothing was handed off yet
NoSwap == [changed |-> NoChanges, idle |-> FALSE, done |-> TRUE, swapped |-> FALSE]

\* the watcher records a change of one kind: the object is appended to the
\* list of its kind and its description to Objects
Update(kind) ==
    /\ recorded < MaxChanges
    /\ LockFree(cacheLock)
    /\ recorded' = recorded + 1
    /\ pending' = [pending EXCEPT ![kind] = Append(@, recorded + 1),
                                  !.Objects = Append(@, <<kind, recorded + 1>>)]
    /\ updated' = TRUE
    /\ UNCHANGED <<cacheLock, swap, deliveries>>
    /\ UNCHANGED <<signerVars, resolverVars, trackerVars, raceVars>>

\* the watcher asks for a full synchronization
UpdateFullSync ==
    /\ LockFree(cacheLock)
    /\ ~pending.NeedFullSync
    /\ pending' = [pending EXCEPT !.NeedFullSync = TRUE]
    /\ updated' = TRUE
    /\ UNCHANGED <<cacheLock, swap, deliveries, recorded>>
    /\ UNCHANGED <<signerVars, resolverVars, trackerVars, raceVars>>

\* SwapChangedObjects, the take: with the mutex held, the accumulator is what
\* the call returns.  idle: no update since the hand-off before
SwapChangedObjectsTake ==
    /\ LockFree(cacheLock)
    /\ cacheLock' = "swap"
    /\ swap' = [changed |-> pending, idle |-> ~updated, done |-> FALSE, swapped |-> TRUE]
    /\ UNCHANGED <<pending, updated, deliveries, recorded>>
    /\ UNCHANGED <<signerVars, resolverVars, trackerVars, raceVars>>

\* SwapChangedObjects, the reset: a new empty accumulator, the mutex
\* released, the taken one returned
SwapChangedObjectsReturn ==
    /\ ~swap.done
    /\ pending' = NoChanges
    /\ cacheLock' = "free"
    /\ swap' = [swap EXCEPT !.done = TRUE]
    /\ updated' = FALSE
    /\ deliveries' = [c \in 1..MaxChanges |->
                         IF c \in ChangesIn(swap.changed) /\ deliveries[c] < 2
                         THEN deliveries[c] + 1 ELSE deliveries[c]]
    /\ UNCHANGED recorded
    /\ UNCHANGED <<signerVars, resolverVars, trackerVars, raceVars>>

InitCache ==
    /\ pending = NoChanges
    /\ cacheLock = "free"
    /\ swap = NoSwap
    /\ updated = FALSE
    /\ recorded = 0
    /\ deliveries = [c \in 1..MaxChanges |-> 0]

(***************************************************************************)
(* The signer shared by two goroutines.  The signer has no lock             *)
(* (signer.go:65-72), so a Notify of the notification worker and an         *)
(* AcmeAccount of the configuration path interleave line by line.  The      *)
(* steps below are the same code as Notify and AcmeAccount above, cut at    *)
(* the reads and writes of s.client.                                        *)
(***************************************************************************)
Idle == [pc |-> "idle", item |-> <<>>, seen |-> NilClient]
NoLoad == [pc |-> "idle", acct |-> DisabledAccount]

\* the goroutine that called s.client.Sign on a nil s.client has panicked
\* (nil dereference), which ends the process
Panicked == worker.pc = "panic"

\* the configuration tuples of the interleaved runs
RaceAccountInputs ==
    {<<"", "", FALSE>>, <<"v02", "ops@example.com", TRUE>>,
     <<"v02-staging", "ops@example.com", TRUE>>}

\* what the unsynchronised read of s.client at signer.go:138 can yield: the
\* value in memory now, or the one this goroutine read at line 112, since
\* nothing orders the read after a write of the other goroutine
ClientReads == {client, worker.seen}

\* signer.go:111-117, Notify up to the call of verify
NotifyCheck(item) ==
    /\ ~Panicked
    /\ worker.pc = "idle"
    /\ verifyCount < MaxVerify
    /\ IF ~HasAccount
       THEN /\ last' = [NoCall EXCEPT !.op = "Notify", !.item = item,
                                      !.ret = ErrUninitialized]
            /\ UNCHANGED worker
       ELSE /\ worker' = [pc |-> "verify", item |-> item, seen |-> client]
            /\ UNCHANGED last
    /\ UNCHANGED <<account, client, expiring, verifyCount, secrets, now, config>>
    /\ UNCHANGED <<resolverVars, trackerVars, cacheVars>>

\* signer.go:123-135 and 154-156, verify up to the signing step
verifyDecide ==
    /\ worker.pc = "verify"
    /\ LET secretName == SecretNameOf(worker.item)
           domains == DomainsOf(worker.item)
           duedate == now + expiring
           tls == GetTLSSecretContent(secretName)
       IN  IF NeedsIssue(tls, duedate, domains)
           THEN /\ verifyCount' = verifyCount + 1
                /\ worker' = [worker EXCEPT !.pc = "sign"]
                /\ UNCHANGED last
           ELSE /\ last' = [NoCall EXCEPT !.op = "Notify", !.item = worker.item,
                                          !.gets = 1, !.at = now]
                /\ worker' = Idle
                /\ UNCHANGED verifyCount
    /\ UNCHANGED <<account, client, expiring, secrets, now, config>>
    /\ UNCHANGED <<resolverVars, trackerVars, cacheVars>>

\* signer.go:138-152, the signing step and the storage of its result
verifySign(signOK, setOK, life) ==
    /\ worker.pc = "sign"
    /\ \E read \in ClientReads :
          IF read = NilClient
          THEN /\ worker' = [worker EXCEPT !.pc = "panic"]
               /\ UNCHANGED <<secrets, last>>
          ELSE /\ secrets' = IF signOK
                             THEN SetTLSSecretContent(SecretNameOf(worker.item),
                                      Sign(DomainsOf(worker.item), life), setOK)
                             ELSE secrets
               /\ last' = [NoCall EXCEPT !.op = "Notify", !.item = worker.item,
                                         !.gets = 1, !.signs = 1,
                                         !.sets = IF signOK THEN 1 ELSE 0,
                                         !.ret = IssueResult(signOK, setOK),
                                         !.at = now]
               /\ worker' = Idle
    /\ UNCHANGED <<account, client, expiring, verifyCount, now, config>>
    /\ UNCHANGED <<resolverVars, trackerVars, cacheVars>>

\* signer.go:75-93, AcmeAccount up to the construction of the client
AcmeAccountClear(endpoint, emails, termsAgreed) ==
    /\ ~Panicked
    /\ config.pc = "idle"
    /\ LET ep == NormalizeEndpoint(endpoint)
           acct == NewAccount(ep, emails, termsAgreed)
           call == [NoCall EXCEPT !.op = "AcmeAccount", !.acct = acct]
       IN  IF account = acct
           THEN /\ last' = call
                /\ UNCHANGED <<client, config>>
           ELSE IF ep = "" /\ emails = "" /\ ~termsAgreed
           THEN /\ client' = NilClient
                /\ last' = call
                /\ UNCHANGED config
           ELSE /\ client' = NilClient
                /\ config' = [pc |-> "loading", acct |-> acct]
                /\ UNCHANGED last
    /\ UNCHANGED <<account, expiring, verifyCount, secrets, now, worker>>
    /\ UNCHANGED <<resolverVars, trackerVars, cacheVars>>

\* signer.go:94-100, the construction of the client and the binding
AcmeAccountBind(newClientOK) ==
    /\ ~Panicked
    /\ config.pc = "loading"
    /\ LET call == [NoCall EXCEPT !.op = "AcmeAccount", !.acct = config.acct,
                                  !.attempted = TRUE]
       IN  IF ~newClientOK
           THEN /\ last' = call
                /\ UNCHANGED <<account, client>>
           ELSE /\ account' = config.acct
                /\ client' = NewClient(config.acct)
                /\ last' = [call EXCEPT !.built = TRUE]
    /\ config' = NoLoad
    /\ UNCHANGED <<expiring, verifyCount, secrets, now, worker>>
    /\ UNCHANGED <<resolverVars, trackerVars, cacheVars>>

\* no call is in progress on either goroutine
InitRace ==
    /\ worker = Idle
    /\ config = NoLoad

Init ==
    /\ InitSigner
    /\ nodes = [n \in NodeNames |-> PlainNode]
    /\ out = NoResult
    /\ InitTracker
    /\ InitCache
    /\ InitRace

Next ==
    \/ \E in \in RenewalAccountInputs, ok \in BOOLEAN :
          AcmeAccount(in[1], in[2], in[3], ok)
    \/ \E e \in 0..MaxWindow : AcmeConfig(e)
    \/ \E it \in Items, signOK \in BOOLEAN, setOK \in BOOLEAN, life \in 1..MaxLife :
          Notify(it, signOK, setOK, life)
    \/ Tick

\* the renewal decision under a configuration that is switched on and off
Spec == Init /\ [][Next]_vars

\* the account binding under every configuration tuple
NextAccount ==
    \/ \E in \in AccountInputs, ok \in BOOLEAN :
          AcmeAccount(in[1], in[2], in[3], ok)
    \/ \E e \in 0..MaxWindow : AcmeConfig(e)
    \/ \E signOK \in BOOLEAN, setOK \in BOOLEAN :
          Notify(<<"s", ",", "a">>, signOK, setOK, MaxLife)

SpecAccount == Init /\ [][NextAccount]_vars

\* the account binding when every client construction succeeds
NextAccountBuilt ==
    \/ \E in \in AccountInputs : AcmeAccount(in[1], in[2], in[3], TRUE)
    \/ \E e \in 0..MaxWindow : AcmeConfig(e)
    \/ \E signOK \in BOOLEAN, setOK \in BOOLEAN :
          Notify(<<"s", ",", "a">>, signOK, setOK, MaxLife)

SpecAccountBuilt == Init /\ [][NextAccountBuilt]_vars

\* the resolver over every cache answer, under every state of node n1
InitResolver ==
    /\ InitSigner
    /\ \E n1 \in NodeChoices :
          nodes = [n \in NodeNames |->
                      IF n = "n1" THEN n1 ELSE Node(TRUE, TRUE, <<49, 50, 55>>)]
    /\ out = NoResult
    /\ InitTracker
    /\ InitCache
    /\ InitRace

NextResolver ==
    \/ \E svcPort \in ServicePorts, flag \in BOOLEAN, dns \in DNSAnswers :
          CreateEndpoints(ExternalService, svcPort, flag,
                          CacheAnswers(NoAnswer, NoAnswer, dns))
    \/ \E svcPort \in ServicePorts, eps \in EndpointsAnswers :
          CreateEndpoints(ClusterService, svcPort, FALSE,
                          CacheAnswers(eps, NoAnswer, NoAnswer))
    \/ \E svcPort \in ServicePorts, sl \in SlicesAnswers :
          CreateEndpoints(ClusterService, svcPort, TRUE,
                          CacheAnswers(NoAnswer, sl, NoAnswer))
    \/ TakeResult

SpecResolver == InitResolver /\ [][NextResolver]_vars

\* the hostname group of the renewal cycle: "s,a,b"
RenewItem == <<"s", ",", "a", ",", "b">>

\* the renewal cycle of one hostname group with a bound client: the
\* controller binds the account, sets the window and calls Notify for the
\* group on every cycle
NextRenew ==
    \/ AcmeAccount("v02", "ops@example.com", TRUE, TRUE)
    \/ \E e \in 0..MaxWindow : AcmeConfig(e)
    \/ \E signOK \in BOOLEAN, setOK \in BOOLEAN, life \in 1..MaxLife :
          Notify(RenewItem, signOK, setOK, life)
    \/ Tick

\* a Notify of item whose signing and storage succeed
NotifySucceeds(item) == \E life \in 1..MaxLife : Notify(item, TRUE, TRUE, life)

\* Notify is called for the group on every cycle, and of the calls that sign,
\* signing and storage do not fail forever
SpecRenew ==
    /\ Init
    /\ [][NextRenew]_vars
    /\ SF_vars(NotifySucceeds(RenewItem))

\* the tracker: inserts, drops and queries in every interleaving
NextTracker ==
    \/ \E l \in LeftRefs, r \in RightRefs :
          TrackNames(l.Context, l.UniqueName, r.Context, r.UniqueName)
    \/ \E l \in LeftRefs, r \in RightRefs : TrackRefs(l, r)
    \/ \E left \in LeftBatches, r \in RightRefs : TrackRefName(left, r.Context, r.UniqueName)
    \/ ClearLinks
    \/ \E input \in QueryInputs, removeMatches \in BOOLEAN :
          QueryLinksRead(input, removeMatches)
    \/ QueryLinksReturn

SpecTracker == Init /\ [][NextTracker]_vars

\* the watcher and the cycle's hand-off in every interleaving
NextCache ==
    \/ \E kind \in ChangeKinds : Update(kind)
    \/ UpdateFullSync
    \/ SwapChangedObjectsTake
    \/ SwapChangedObjectsReturn

SpecCache == Init /\ [][NextCache]_vars

\* the notification worker and the configuration path on one signer, in
\* every interleaving of their lines
NextRace ==
    \/ \E it \in Items : NotifyCheck(it)
    \/ verifyDecide
    \/ \E signOK \in BOOLEAN, setOK \in BOOLEAN, life \in 1..MaxLife :
          verifySign(signOK, setOK, life)
    \/ \E in \in RaceAccountInputs : AcmeAccountClear(in[1], in[2], in[3])
    \/ \E ok \in BOOLEAN : AcmeAccountBind(ok)

SpecRace == Init /\ [][NextRace]_vars

(***************************************************************************)
(* Properties of the signer.                                               *)
(***************************************************************************)
\* the stored certificate a verify of item reads
StoredFor(item) == secrets[SecretNameOf(item)]

\* this step is a call Notify(item)
NotifyStep(item) ==
    \E signOK \in BOOLEAN, setOK \in BOOLEAN, life \in 1..MaxLife :
        Notify(item, signOK, setOK, life)

\* C1: verify invokes the signing capability if and only if no certificate is
\* stored for the secret, or the stored certificate expires before
\* now + expiringWindow, or some requested domain is not among the stored
\* certificate's domains; when none holds it calls neither Sign nor
\* SetTLSSecretContent and returns nil.
C1_SignIffTrigger ==
    [][(last'.op = "Notify" /\ client # NilClient /\ NotifyStep(last'.item)) =>
              LET it == last'.item
                  tls == StoredFor(it)
                  trigger ==
                      \/ ~tls.present
                      \/ tls.NotAfter < now + expiring
                      \/ \E d \in Range(DomainsOf(it)) : d \notin Range(tls.DNSNames)
              IN  /\ (last'.signs >= 1) <=> trigger
                  /\ ~trigger => /\ last'.signs = 0
                                 /\ last'.sets = 0
                                 /\ last'.ret = "nil"]_vars

\* a verify found a stored, covering, unexpired certificate and skipped
C1_Witness ==
    /\ last.op = "Notify" /\ last.gets = 1
    /\ last.signs = 0 /\ last.sets = 0 /\ last.ret = "nil"
    /\ StoredFor(last.item).present

\* C2: the domain match is set inclusion: a stored, unexpired certificate
\* covering D2 satisfies a request for D1 (no signing) exactly when D1 is a
\* subset of D2, whatever the order of either list, names compared as whole
\* strings.
C2_MatchIsInclusion ==
    [][( /\ last'.op = "Notify"
         /\ client # NilClient
         /\ StoredFor(last'.item).present
         /\ ~(StoredFor(last'.item).NotAfter < now + expiring)
         /\ NotifyStep(last'.item) ) =>
              ((last'.signs = 0) <=>
                   (Range(DomainsOf(last'.item))
                        \subseteq Range(StoredFor(last'.item).DNSNames)))]_vars

\* a request for b,a was satisfied by the certificate issued for a,b
C2_Witness ==
    /\ last.op = "Notify" /\ last.gets = 1 /\ last.signs = 0
    /\ last.item = <<"s", ",", "b", ",", "a">>
    /\ StoredFor(last.item).DNSNames = << <<"a">>, <<"b">> >>

\* C3: Notify while no Client is bound returns the uninitialized-account
\* error and does nothing else: no Sign, no SetTLSSecretContent, no read of
\* the stored certificate, no change of the certificates or of the
\* verification counter.
C3_NotifyWithoutClient ==
    [][(last'.op = "Notify" /\ client = NilClient /\ NotifyStep(last'.item)) =>
              /\ last'.ret = ErrUninitialized
              /\ last'.signs = 0 /\ last'.sets = 0 /\ last'.gets = 0
              /\ UNCHANGED <<secrets, verifyCount, account, client, expiring>>]_vars

\* a Notify was rejected although an account is recorded
C3_Witness ==
    /\ last.op = "Notify" /\ last.ret = ErrUninitialized
    /\ client = NilClient /\ account # DisabledAccount

\* the account tuple a call names, its aliases replaced by the full URLs
CanonicalTuple(in) ==
    NewAccount(CASE in[1] \in {"v2", "v02"} -> ProdURL
                 [] in[1] \in {"v2-staging", "v02-staging"} -> StagingURL
                 [] OTHER -> in[1],
               in[2], in[3])

\* C4: after any sequence of AcmeAccount calls in which every client
\* construction succeeds, HasAccount() is true exactly when the most recent
\* call's tuple is not the disabled tuple.
C4_BoundIffEnabled ==
    last.op = "AcmeAccount" => (HasAccount <=> last.acct # DisabledAccount)

\* C5: a changed tuple whose client construction fails leaves no Client bound,
\* and the next AcmeAccount call naming an enabled tuple that differs from the
\* failed one attempts the construction again.
C5_RetryAfterFailure ==
    [][\A in \in AccountInputs, ok \in BOOLEAN :
          AcmeAccount(in[1], in[2], in[3], ok) =>
              /\ (last'.attempted /\ ~last'.built) => client' = NilClient
              /\ ( /\ last.op = "AcmeAccount" /\ last.attempted /\ ~last.built
                    /\ CanonicalTuple(in) # last.acct
                    /\ CanonicalTuple(in) # DisabledAccount ) => last'.attempted]_vars

\* C6: AcmeAccount with a tuple that, aliases mapped to their URLs, equals the
\* recorded Account is a no-op: Client and Account unchanged, no client
\* construction attempted.
C6_SameTupleNoOp ==
    [][\A in \in AccountInputs, ok \in BOOLEAN :
          (CanonicalTuple(in) = account /\ AcmeAccount(in[1], in[2], in[3], ok)) =>
              /\ ~last'.attempted
              /\ UNCHANGED <<account, client, expiring, verifyCount, secrets>>]_vars

\* a call naming the recorded account left the bound Client in place
C6_Witness ==
    /\ last.op = "AcmeAccount" /\ ~last.attempted
    /\ last.acct = account /\ account.Endpoint = ProdURL
    /\ client = NewClient(account)

\* C7 as stated: two successive verify calls with nothing changed between them
\* invoke the signing capability at most once in total, the second one
\* skipping.
C7_AtMostOneSign ==
    (last.op = "Notify" /\ last.gets = 1 /\ last.again) =>
        (last.prevSigns + last.signs <= 1 /\ last.signs = 0)

\* C7 amended: of two successive verify calls for the same secret and domains
\* at the same instant, the second skips (so signing happens at most once in
\* total) when the first returned nil and the certificate then stored does
\* not expire before now + expiringWindow; when the first returned a signing
\* or storage error, the second invokes Sign again.
C7_SecondSkipsAfterSuccess ==
    [][( /\ last'.op = "Notify"
         /\ client # NilClient
         /\ Again(last'.item)
         /\ NotifyStep(last'.item) ) =>
              /\ ( /\ last.ret = "nil"
                    /\ ~(StoredFor(last'.item).NotAfter < now + expiring) ) =>
                       (last'.signs = 0 /\ last.signs + last'.signs <= 1)
              /\ last.ret # "nil" => last'.signs = 1]_vars

\* a verify skipped right after a verify of the same item had issued
C7_Witness ==
    /\ last.op = "Notify" /\ last.gets = 1 /\ last.again
    /\ last.prevSigns = 1 /\ last.signs = 0

\* C8: on the trigger path Sign is invoked exactly once; a Sign error is
\* returned with SetTLSSecretContent not called and the certificate unchanged;
\* a storage error after a successful Sign is returned; nil is returned only
\* when both succeed.
C8_TriggerPathErrors ==
    [][\A signOK \in BOOLEAN, setOK \in BOOLEAN :
          ( /\ last'.op = "Notify" /\ last'.signs >= 1
            /\ client # NilClient
            /\ \E life \in 1..MaxLife : Notify(last'.item, signOK, setOK, life) ) =>
              /\ last'.signs = 1
              /\ ~signOK => /\ last'.ret = ErrSign
                            /\ last'.sets = 0
                            /\ secrets' = secrets
              /\ (signOK /\ ~setOK) => (last'.ret = ErrStore /\ last'.sets = 1)
              /\ (last'.ret = "nil") <=> (signOK /\ setOK)]_vars

\* a verify signed, failed to store and returned the storage error
C8_Witness ==
    /\ last.op = "Notify" /\ last.signs = 1 /\ last.sets = 1
    /\ last.ret = ErrStore

(***************************************************************************)
(* Properties of the endpoint resolver.                                    *)
(***************************************************************************)
\* a <= b for strings: a is a prefix of b, or a has the smaller byte where
\* they first differ
StrLeq(a, b) ==
    \/ Len(a) <= Len(b) /\ \A i \in 1..Len(a) : a[i] = b[i]
    \/ \E k \in 1..Len(a) :
          /\ k <= Len(b)
          /\ a[k] < b[k]
          /\ \A i \in 1..(k - 1) : a[i] = b[i]

Ascending(list) ==
    \A i \in 1..(Len(list) - 1) : StrLeq(list[i].Target, list[i + 1].Target)

\* C9: both lists CreateEndpoints returns are in ascending order of the Target
\* string, for either representation and for externally-named services.
C9_SortedByTarget ==
    out.called => (Ascending(out.ready) /\ Ascending(out.notReady))

\* a list-based call whose ready entries had to be reordered, "10.0.0.10"
\* coming before "10.0.0.1"
C9_Witness ==
    /\ out.called /\ out.svc = ClusterService /\ ~out.useEndpointSlices
    /\ out.err = "nil"
    /\ Len(out.ready) >= 3
    /\ out.ready # createEndpoints(out.cache.endpoints.val, out.svcPort).ready
    /\ out.ready[1].IP = IP10
    /\ out.ready[Len(out.ready)].IP = IP2

\* C10: every entry of the ready and notReady lists CreateEndpoints returns
\* has a weight in 1..127.
C10_WeightInRange ==
    out.called =>
        \A list \in {out.ready, out.notReady} :
            \A i \in 1..Len(list) :
                list[i].Weight >= 1 /\ list[i].Weight <= 127

\* how often e occurs in list
Count(list, e) == Cardinality({i \in 1..Len(list) : list[i] = e})

\* the (slice, port, endpoint) places of a list of slices whose port the
\* service port selects: each emits one entry
SliceEmitters(slices, svcPort) ==
    UNION { UNION { {<<i, j, k>> : k \in 1..Len(slices[i].Endpoints)} :
                        j \in {p \in 1..Len(slices[i].Ports) :
                                  SlicePortMatches(svcPort, slices[i].Ports[p])} } :
                i \in 1..Len(slices) }

\* the entry the place t emits, and whether its ready flag is present and false
SliceEntry(slices, t) ==
    SliceDomainEndpoint(slices[t[1]].Endpoints[t[3]], slices[t[1]].Ports[t[2]])

FlagFalse(slices, t) == slices[t[1]].Endpoints[t[3]].Ready = "false"

\* the pending result is that of a slice-based call whose lookup succeeded
SliceCall ==
    /\ out.called /\ out.svc = ClusterService /\ out.useEndpointSlices
    /\ out.cache.slices.err = "nil"

\* C11: in the slice-based path every emitted endpoint is placed in exactly
\* one of the two lists: in notReady if and only if its ready flag is present
\* and false, in ready when the flag is absent or true.
C11_ReadyFlagRouting ==
    SliceCall =>
        LET slices == out.cache.slices.val
            emitters == SliceEmitters(slices, out.svcPort)
        IN  /\ Len(out.ready) + Len(out.notReady) = Cardinality(emitters)
            /\ \A t \in emitters :
                  LET same == {u \in emitters : SliceEntry(slices, u) = SliceEntry(slices, t)}
                  IN  /\ Count(out.notReady, SliceEntry(slices, t))
                            = Cardinality({u \in same : FlagFalse(slices, u)})
                      /\ Count(out.ready, SliceEntry(slices, t))
                            = Cardinality({u \in same : ~FlagFalse(slices, u)})

\* one slice with an endpoint whose flag is absent and one whose flag is
\* false: the first is in ready, the second in notReady
C11_Witness ==
    /\ SliceCall
    /\ Len(out.cache.slices.val) = 1
    /\ Len(out.cache.slices.val[1].Endpoints) = 2
    /\ out.cache.slices.val[1].Endpoints[1].Ready = "nil"
    /\ out.cache.slices.val[1].Endpoints[2].Ready = "false"
    /\ Len(out.ready) = 1 /\ out.ready[1].IP = IP1
    /\ Len(out.notReady) = 1 /\ out.notReady[1].IP = IP2

\* the pending result is that of a call for an externally-named service
ExternalCall == out.called /\ out.svc.Type = "ExternalName"

\* C12: for an externally-named service with a declared port above zero, ready
\* holds exactly one endpoint per address the DNS lookup returned, each with
\* the service's declared port, and notReady is empty whatever the
\* representation flag; with a port of zero or below the call returns the
\* invalid-port error and no endpoints.
C12_ExternalName ==
    ExternalCall =>
        IF out.svcPort.Port > 0
        THEN /\ out.notReady = <<>>
             /\ out.cache.dns.err = "nil" =>
                   LET addrs == out.cache.dns.val
                   IN  /\ out.err = "nil"
                       /\ Len(out.ready) = Len(addrs)
                       /\ \A i \in 1..Len(out.ready) :
                             out.ready[i].Port = out.svcPort.Port
                       /\ \A a \in Range(addrs) :
                             Cardinality({i \in 1..Len(out.ready) :
                                             out.ready[i].IP = IPString(a)})
                                 = Count(addrs, a)
        ELSE /\ out.err = ErrInvalidPort
             /\ out.ready = <<>>
             /\ out.notReady = <<>>

\* two addresses resolved with the slice flag set: two ready endpoints with
\* the declared port and nothing in notReady
C12_Witness ==
    /\ ExternalCall
    /\ out.svcPort.Port = 80 /\ out.useEndpointSlices
    /\ out.cache.dns = Answer("nil", <<(<<10, 0, 0, 2>>), (<<10, 0, 0, 1>>)>>)
    /\ Len(out.ready) = 2 /\ out.ready[1].IP = IP1 /\ out.ready[2].IP = IP2
    /\ out.ready[1].Port = 80 /\ out.notReady = <<>>

\* the answer of the one lookup the pending call made: DNS for an
\* externally-named service, else the slices or the endpoint list by the flag
LookupAnswer ==
    IF out.svc.Type = "ExternalName" THEN out.cache.dns
    ELSE IF out.useEndpointSlices THEN out.cache.slices
    ELSE out.cache.endpoints

\* the pending call reached its lookup: the external-name path looks up only
\* when the port is above zero
LookupMade == out.called /\ (out.svc.Type = "ExternalName" => out.svcPort.Port > 0)

\* C13: when the endpoint-list, slice or DNS lookup fails, CreateEndpoints
\* returns that same error unchanged and no endpoints in either list.
C13_LookupErrorReturned ==
    (LookupMade /\ LookupAnswer.err # "nil") =>
        /\ out.err = LookupAnswer.err
        /\ out.ready = <<>>
        /\ out.notReady = <<>>

\* a failed DNS lookup for a service with port 80
C13_Witness ==
    /\ LookupMade
    /\ out.svc = ExternalService /\ out.svcPort.Port = 80
    /\ out.cache.dns.err = ErrDNS
    /\ out.err = ErrDNS /\ out.ready = <<>>

\* the pending result is that of a list-based or slice-based call whose
\* lookup succeeded
GroupedCall ==
    /\ out.called /\ out.svc.Type # "ExternalName"
    /\ LookupAnswer.err = "nil"

\* the name filter of the target service port
NameSelects(svcPort, epPort) == svcPort.Name = "" \/ svcPort.Name = epPort.Name

\* the declared protocol of the service port, TCP when unspecified
DeclaredProtocol(svcPort) == IF svcPort.Protocol = "" THEN "TCP" ELSE svcPort.Protocol

\* entry e has a source in the subsets: a TCP port of the selected name and an
\* address of the same subset
FromSubsetPort(e, subsets, svcPort) ==
    \E i \in 1..Len(subsets) : \E j \in 1..Len(subsets[i].Ports) :
        LET epPort == subsets[i].Ports[j]
        IN  /\ epPort.Protocol = "TCP"
            /\ NameSelects(svcPort, epPort)
            /\ e.Port = epPort.Port
            /\ \E a \in Range(subsets[i].Addresses) \cup Range(subsets[i].NotReadyAddresses) :
                  e.IP = a.IP

\* entry e has a source in the slices: a TCP port of the selected name and the
\* declared protocol, and an endpoint of the same slice
FromSlicePort(e, slices, svcPort) ==
    \E i \in 1..Len(slices) : \E j \in 1..Len(slices[i].Ports) :
        LET epPort == slices[i].Ports[j]
        IN  /\ epPort.Protocol = "TCP"
            /\ epPort.Protocol = DeclaredProtocol(svcPort)
            /\ NameSelects(svcPort, epPort)
            /\ e.Port = epPort.Port
            /\ \E k \in 1..Len(slices[i].Endpoints) :
                  e.IP = slices[i].Endpoints[k].Addresses[1]

\* C17: every endpoint emitted from either representation comes from a port
\* sub-grouping whose protocol is TCP and whose name is the target service
\* port's name (or the target has no name); in the slice-based path that
\* protocol is also the service port's declared protocol, TCP when unspecified.
C17_TcpPortOfName ==
    GroupedCall =>
        \A e \in Range(out.ready) \cup Range(out.notReady) :
            IF out.useEndpointSlices
            THEN FromSlicePort(e, out.cache.slices.val, out.svcPort)
            ELSE FromSubsetPort(e, out.cache.endpoints.val, out.svcPort)

\* s without its leading zeros, the last digit kept
RECURSIVE StripZeros(_)
StripZeros(s) == IF Len(s) > 1 /\ s[1] = Zero THEN StripZeros(Tail(s)) ELSE s

\* s is a decimal numeral of n: an optional plus sign, leading zeros, then the
\* digits of n
NumeralOf(s, n) ==
    LET body == IF s # <<>> /\ s[1] = Plus THEN Tail(s) ELSE s
    IN  body # <<>> /\ StripZeros(body) = Itoa(n)

\* what the claim says the lookup of nodeName returns in the current cache
ExpectedWeight(nodeName) ==
    LET known == nodeName \in NodeNames /\ nodes[nodeName].found /\ nodes[nodeName].annotated
        values == IF known
                  THEN {n \in minWeight..maxWeight : NumeralOf(nodes[nodeName].weight, n)}
                  ELSE {}
    IN  IF values = {} THEN defaultServerWeight ELSE CHOOSE n \in values : TRUE

\* C18: the node-weight lookup returns the node's annotation value when it
\* parses as an integer in 1..127 and 50 in every other case (no node
\* reference, failed lookup, missing annotation, non-numeric or out-of-range
\* value), and a failed node lookup never makes the endpoint resolution fail.
C18_NodeWeight ==
    /\ \A nodeName \in NodeNames \cup {NilName, "n3"} :
          getNodeWeight(nodeName) = ExpectedWeight(nodeName)
    /\ GroupedCall =>
          /\ out.err = "nil"
          /\ \A e \in Range(out.ready) \cup Range(out.notReady) :
                e.NodeName # NilName => e.Weight = ExpectedWeight(e.NodeName)

\* an endpoint on node n1, annotated "64", resolved with weight 64, and one on
\* a node annotated "127"
C18_Witness ==
    /\ GroupedCall
    /\ nodes["n1"].found /\ nodes["n1"].annotated /\ nodes["n1"].weight = <<54, 52>>
    /\ \E i \in 1..Len(out.ready) : out.ready[i].NodeName = "n1" /\ out.ready[i].Weight = 64
    /\ \E i \in 1..Len(out.ready) : out.ready[i].NodeName = "n2" /\ out.ready[i].Weight = 127

\* list in the opposite order
Reverse(list) == [i \in 1..Len(list) |-> list[Len(list) + 1 - i]]

\* the same cluster data delivered in the opposite order: the subsets and in
\* each its ports and addresses, the slices and in each its ports and
\* endpoints, the resolved addresses
ReversedAnswers(cache) ==
    CacheAnswers(
        Answer(cache.endpoints.err,
               Reverse([i \in 1..Len(cache.endpoints.val) |->
                           LET s == cache.endpoints.val[i]
                           IN  [Ports |-> Reverse(s.Ports),
                                Addresses |-> Reverse(s.Addresses),
                                NotReadyAddresses |-> Reverse(s.NotReadyAddresses)]])),
        Answer(cache.slices.err,
               Reverse([i \in 1..Len(cache.slices.val) |->
                           LET s == cache.slices.val[i]
                           IN  [Ports |-> Reverse(s.Ports),
                                Endpoints |-> Reverse(s.Endpoints)]])),
        Answer(cache.dns.err, Reverse(cache.dns.val)))

\* C19: CreateEndpoints is insensitive to the order of the subsets or slices,
\* ports and addresses of its input: the same cluster data in another order
\* gives identical ready and notReady lists, also when several entries share
\* one ip:port target and differ in other fields.
C19_OrderInsensitive ==
    out.called =>
        LET again == CreateEndpointsResult(out.svc, out.svcPort, out.useEndpointSlices,
                                           ReversedAnswers(out.cache))
        IN  /\ again.ready = out.ready
            /\ again.notReady = out.notReady

\* the step ends a query
QueryEnds == ~query.done /\ query'.done

\* the query that ends follows, with nothing recorded or dropped in between,
\* a query with the same input and the same removeMatches
RepeatsBefore(q) ==
    /\ before.asked
    /\ before.input = q.input
    /\ before.removeMatches = q.removeMatches

\* C14: a QueryLinks call with removeMatches=true followed immediately by an
\* identical query returns an empty result; with removeMatches=false repeated
\* identical queries return identical results and leave the graph unchanged.
C14_RepeatedQuery ==
    [][QueryEnds =>
          /\ ~query'.removeMatches => links' = links
          /\ RepeatsBefore(query') =>
                IF query'.removeMatches
                THEN DOMAIN query'.result = {}
                ELSE query'.result = before.result]_vars

\* a pruning query returned links and the identical query right after it
\* returned none
C14_Witness ==
    /\ query.done /\ query.asked /\ query.removeMatches
    /\ RepeatsBefore(query)
    /\ DOMAIN before.result # {}
    /\ DOMAIN query.result = {}

\* the links recorded and not yet returned whose left side input names
FreshOf(input) == {e \in fresh : e[1] \in RefsOf(input)}

\* C15: under every interleaving of pruning queries with the inserts of
\* TrackNames, TrackRefName and TrackRefs, every recorded link whose left side
\* is queried is returned by exactly one pruning query: the links not yet
\* returned are exactly those of the graph (none lost, none left behind to be
\* returned again), and a pruning query returns exactly the unreturned links
\* of the pairs it names.
C15_ReturnedOnce ==
    [][/\ fresh' = Edges(links')
       /\ (QueryEnds /\ query'.removeMatches) =>
             /\ RefsOf(query'.result) = {e[2] : e \in FreshOf(query'.input)}
             /\ FreshOf(query'.input) \cap fresh' = {}]_vars

\* a pruning query returned links, and a link recorded after it on a pair it
\* named waits in the graph for the next query
C15_Witness ==
    /\ query.done /\ query.asked /\ query.removeMatches
    /\ DOMAIN query.result # {}
    /\ touched
    /\ FreshOf(query.input) # {}
    /\ FreshOf(query.input) \subseteq Edges(links)

\* C16: every change the watcher records is contained in exactly one ChangeSet
\* returned by SwapChangedObjects, the first one taken after the change was
\* recorded, and a swap with no update since the previous swap returns a
\* fully empty ChangeSet.
C16_HandedOffOnce ==
    /\ \A c \in 1..recorded :
          IF c \in ChangesIn(pending) THEN deliveries[c] = 0 ELSE deliveries[c] = 1
    /\ (swap.swapped /\ swap.done /\ ~updated) =>
          \A c \in 1..recorded : deliveries[c] = 1
    /\ (swap.swapped /\ swap.idle) => swap.changed = NoChanges

\* the first change was handed off, the swap after it found nothing and
\* returned the empty ChangeSet, and a change recorded since waits for the
\* next swap
C16_Witness ==
    /\ swap.swapped /\ swap.done /\ swap.idle
    /\ swap.changed = NoChanges
    /\ recorded = 2
    /\ deliveries[1] = 1
    /\ deliveries[2] = 0 /\ 2 \in ChangesIn(pending)

\* a client is bound and the renewal condition of item holds: no certificate
\* is stored, or it expires before now + expiring, or it lacks a domain
Wants(item) ==
    /\ client # NilClient
    /\ LET tls == StoredFor(item)
       IN  \/ ~tls.present
           \/ tls.NotAfter < now + expiring
           \/ \E d \in Range(DomainsOf(item)) : d \notin Range(tls.DNSNames)

\* the most recent call is a Notify of item that signed and stored
IssuedFor(item) ==
    /\ last.op = "Notify" /\ last.item = item
    /\ last.signs = 1 /\ last.ret = "nil"

\* C20 as claimed, in the form a finite run decides: once signing and storage
\* have succeeded for a group, a certificate satisfying the request is stored,
\* so that the next Notify takes the skip path.
C20_IssuedSatisfies ==
    (IssuedFor(RenewItem) /\ last.at = now /\ client # NilClient) => ~Wants(RenewItem)

\* C20, amended: with a client bound, a Notify whose signing or storing failed
\* leaves the renewal condition true, so the next Notify of the group signs
\* again; a Notify of a group whose renewal condition is false skips; and when
\* signing and storage do not fail forever, a group whose renewal condition
\* holds eventually has a certificate signed and stored (or the condition
\* ceases to hold, or the model's bound on verify calls is reached).  The
\* stored certificate ends the renewal only if it does not expire before
\* now + expiring.
C20_RetryUntilIssued ==
    /\ [][( /\ last'.op = "Notify"
            /\ client # NilClient
            /\ NotifyStep(RenewItem) ) =>
              /\ (last'.signs = 1 /\ last'.ret # "nil") => Wants(RenewItem)'
              /\ ~Wants(RenewItem) => last'.signs = 0
              /\ ( /\ last'.signs = 1 /\ last'.ret = "nil"
                   /\ ~(StoredFor(RenewItem)'.NotAfter < now + expiring) ) =>
                    ~Wants(RenewItem)']_vars
    /\ (Wants(RenewItem) /\ verifyCount < MaxVerify)
          ~> (IssuedFor(RenewItem) \/ ~Wants(RenewItem) \/ verifyCount = MaxVerify)

\* a Notify whose attempt failed was followed, at the same instant, by a
\* Notify of the same group that signed again and stored the certificate
C20_Witness ==
    /\ last.op = "Notify" /\ last.again
    /\ last.prevSigns = 1
    /\ last.signs = 1 /\ last.ret = "nil"
    /\ StoredFor(last.item).present

\* C21: a Notify call that returns a signing or storage error for one secret
\* leaves the recorded account, the bound client, the expiry window and the
\* stored certificates of all other secrets unchanged, so that a following
\* Notify for a different hostname group is decided as if the failed call had
\* not occurred.
C21_FailedNotifyFrame ==
    [][( /\ last'.op = "Notify"
         /\ last'.ret \in {ErrSign, ErrStore}
         /\ NotifyStep(last'.item) ) =>
              /\ account' = account
              /\ client' = client
              /\ expiring' = expiring
              /\ \A n \in SecretNames \ {SecretNameOf(last'.item)} :
                    secrets'[n] = secrets[n]
              /\ \A other \in Items :
                    other # last'.item => (Wants(other)' <=> Wants(other))]_vars

\* a Notify for secret s failed at signing while secret t holds a certificate
C21_Witness ==
    /\ last.op = "Notify" /\ last.ret = ErrSign
    /\ SecretNameOf(last.item) = <<"s">>
    /\ secrets[<<"t">>].present
    /\ client # NilClient

\* this step is a call of AcmeAccount or of AcmeConfig
ConfigStep ==
    \/ \E in \in RenewalAccountInputs, ok \in BOOLEAN : AcmeAccount(in[1], in[2], in[3], ok)
    \/ \E e \in 0..MaxWindow : AcmeConfig(e)

\* C22: the verification counter never decreases: it grows by exactly one in
\* each verify call that triggers a (re)issue, whether or not signing or
\* storage then succeeds, and is unchanged by skip-path verify calls, by
\* Notify calls rejected for lack of an account, and by AcmeAccount and
\* AcmeConfig.
C22_CounterMonotone ==
    [][/\ verifyCount' >= verifyCount
       /\ (last'.op = "Notify" /\ NotifyStep(last'.item)) =>
             IF Wants(last'.item)
             THEN verifyCount' = verifyCount + 1 /\ last'.signs = 1
             ELSE verifyCount' = verifyCount
       /\ (last'.op \in {"AcmeAccount", "AcmeConfig"} /\ ConfigStep) =>
             verifyCount' = verifyCount]_vars

\* the one verify that triggered so far failed to store, and the counter is 1
C22_Witness ==
    /\ last.op = "Notify" /\ last.signs = 1 /\ last.ret = ErrStore
    /\ verifyCount = 1

\* this step is a call of AcmeAccount
AccountStep ==
    \E in \in AccountInputs, ok \in BOOLEAN : AcmeAccount(in[1], in[2], in[3], ok)

\* C23: in every reachable state a bound client was constructed for exactly
\* the account currently recorded; a call of AcmeAccount with a tuple that
\* differs from the recorded account drops the client of the earlier account,
\* leaving no client or the one constructed in that call for its tuple, and a
\* verify signs with the client of the recorded account only.
C23_ClientOfRecordedAccount ==
    [][/\ client' # NilClient => (client'.bound /\ client'.account = account')
       /\ (last'.op = "AcmeAccount" /\ last'.acct # account /\ AccountStep) =>
             /\ client # NilClient => client' # client
             /\ \/ client' = NilClient
                \/ /\ last'.built
                   /\ account' = last'.acct
                   /\ client'.account = last'.acct
       /\ (last'.op = "Notify" /\ last'.signs = 1 /\ NotifyStep(last'.item)) =>
             (client.bound /\ client.account = account)]_vars

\* the construction for a second account failed: the client of the first is
\* gone, the first account is still the recorded one
C23_Witness ==
    /\ last.op = "AcmeAccount" /\ last.attempted /\ ~last.built
    /\ account # DisabledAccount /\ account # last.acct
    /\ client = NilClient

\* C24: under any interleaving of AcmeAccount and Notify on one signer, a
\* Notify never reaches the signing step with no client bound: the call
\* s.client.Sign (signer.go:138) is never made on a nil s.client.
C24_NeverSignsUnbound == ~Panicked

====
